---- MODULE Spec2Model ----
(***************************************************************************)
(* Model of the deploy orchestrator `run` of src/index.ts: a linear script *)
(* of external calls (filesystem probes, package-manager commands, lock    *)
(* file reads, a file copy and git commands) guarded by a top-level        *)
(* try/catch.  Strings are TLA+ strings; the string operations of the code *)
(* (trim, indexOf, slice, template concatenation, the regular-expression   *)
(* test, semver's parse and compare) are modelled by what they compute.    *)
(* The two non-ASCII glyphs of the source (in the commit message and in    *)
(* the last log line) are written as the ASCII words <tophat> and          *)
(* <sparkles>, and a backquote inside a message as an apostrophe.          *)
(***************************************************************************)
EXTENDS Integers, Sequences, FiniteSets, TLC

VARIABLES
  pc,            \* position of run() in its script
  accessTokenIn, \* the raw `access-token` input of the workflow
  deployBranchIn,\* the raw `deploy-branch` input of the workflow
  ref,           \* github.context.ref
  fs,            \* the files of the checkout the script probes, reads or writes
  accessToken,   \* const accessToken
  deployBranch,  \* let deployBranch
  pkgManager,    \* const pkgManager
  buildArgsIn,   \* the raw `build-args` input, as read at line 37
  scullyArgsIn,  \* the raw `scully-args` input, as read at line 43
  buildArgs,     \* let buildArgs
  scullyArgs,    \* let scullyArgs
  lockParsed,    \* yarnLockParsed.object / packageLockJsonParsed.dependencies
  scullyVersion, \* let scullyVersion
  trace,         \* every external call issued so far, in order
  log,           \* every line written to the job log so far, in order
  raised,        \* the value caught by the top-level catch, if any
  failed,        \* core.setFailed was called
  failureMsg,    \* the message handed to core.setFailed
  success,       \* core.setOutput('success', true) was called
  argIn,         \* ArgsSpec: the raw argument string under normalization
  argOut         \* ArgsSpec: the normalized argument string

vars == <<pc, accessTokenIn, deployBranchIn, ref, fs, accessToken, deployBranch,
          pkgManager, buildArgsIn, scullyArgsIn, buildArgs, scullyArgs,
          lockParsed, scullyVersion, trace, log, raised, failed, failureMsg,
          success, argIn, argOut>>

(***************************************************************************)
(* Bounds and input universes                                              *)
(***************************************************************************)
\* longest raw argument string of the exhaustive normalization check
MaxArgLen == 4

\* the characters raw argument strings are built from
ArgAlphabet == {"-", " ", "a"}

RECURSIVE StringsUpTo(_)
StringsUpTo(n) ==
  IF n = 0 THEN {""}
  ELSE LET shorter == StringsUpTo(n - 1)
       IN  shorter \cup {s \o c : s \in {t \in shorter : Len(t) = n - 1}, c \in ArgAlphabet}

ArgStrings == StringsUpTo(MaxArgLen)

\* the raw inputs a run is started with
TokenInputs == {"", " ", "s3cr3t"}
BranchInputs == {"", "gh-pages"}
Refs == {"refs/heads/main", "refs/heads/gh-pages", "refs/heads/main-2",
         "refs/tags/main", "refs/heads/dev", "refs/remotes/refs/heads/main"}
BuildArgInputs == {"", "foo", "-- foo", " foo "}
ScullyArgInputs == {"", "bar", "-- bar", "-- -- bar", " bar "}

\* github.context of the run
Owner == "octo"
Repo == "site"
Actor == "octocat"
Sha == "abc123"

(***************************************************************************)
(* String operations of the JavaScript runtime                             *)
(***************************************************************************)
Whitespace == {" "}

Slice(s, n) == SubSeq(s, n + 1, Len(s))

RECURSIVE TrimStart(_)
TrimStart(s) ==
  IF Len(s) > 0 /\ SubSeq(s, 1, 1) \in Whitespace THEN TrimStart(Slice(s, 1)) ELSE s

RECURSIVE TrimEnd(_)
TrimEnd(s) ==
  IF Len(s) > 0 /\ SubSeq(s, Len(s), Len(s)) \in Whitespace
  THEN TrimEnd(SubSeq(s, 1, Len(s) - 1)) ELSE s

Trim(s) == TrimEnd(TrimStart(s))

\* String.prototype.indexOf: the zero-based position of the first occurrence, or -1
IndexOf(s, t) ==
  LET hits == {i \in 0..(Len(s) - Len(t)) : SubSeq(s, i + 1, i + Len(t)) = t}
  IN  IF hits = {} THEN -1 ELSE CHOOSE i \in hits : \A j \in hits : i <= j

\* core.getInput(name): the input with surrounding whitespace removed
GetInputRaw(raw) == raw

GetInput(raw) == Trim(raw)

(***************************************************************************)
(* Argument normalization (lines 37-48)                                    *)
(***************************************************************************)
\* a slip that takes any leading dashes for the separator
NormalizeBuildArgsDashes(raw) ==
  LET b == Trim(GetInput(raw))
  IN  IF b # "" /\ IndexOf(b, "--") # 0 THEN "-- " \o b ELSE b

\* let buildArgs = core.getInput('build-args').trim(); if (...) buildArgs = `-- ${buildArgs}`
NormalizeBuildArgs(raw) ==
  LET b == Trim(GetInput(raw))
  IN  IF b # "" /\ IndexOf(b, "-- ") # 0 THEN "-- " \o b ELSE b

\* a slip that strips every leading separator instead of one
RECURSIVE NormalizeScullyArgsAll(_)
NormalizeScullyArgsAll(raw) ==
  LET s == Trim(GetInput(raw))
  IN  IF IndexOf(s, "-- ") = 0 THEN NormalizeScullyArgsAll(Slice(s, 3)) ELSE s

\* let scullyArgs = core.getInput('scully-args').trim(); if (...) scullyArgs = scullyArgs.slice(3)
NormalizeScullyArgs(raw) ==
  LET s == Trim(GetInput(raw))
  IN  IF IndexOf(s, "-- ") = 0 THEN Slice(s, 3) ELSE s

(***************************************************************************)
(* semver.lte(version, '0.0.85'): parse both versions, compare             *)
(***************************************************************************)
Digits == "0123456789"
\* the characters of an identifier, in code-unit order
IdChars == "-0123456789ABCDEFGHIJKLMNOPQRSTUVWXYZabcdefghijklmnopqrstuvwxyz"

IsDigits(s) == Len(s) > 0 /\ \A i \in 1..Len(s) : IndexOf(Digits, SubSeq(s, i, i)) >= 0

\* 0|[1-9]\d*
IsNumericId(s) == IsDigits(s) /\ (Len(s) = 1 \/ SubSeq(s, 1, 1) # "0")

\* \d*[a-zA-Z-][a-zA-Z0-9-]*
IsAlphanumId(s) ==
  /\ Len(s) > 0
  /\ \A i \in 1..Len(s) : IndexOf(IdChars, SubSeq(s, i, i)) >= 0
  /\ ~IsDigits(s)

RECURSIVE ParseNat(_)
ParseNat(s) ==
  IF s = "" THEN 0
  ELSE ParseNat(SubSeq(s, 1, Len(s) - 1)) * 10 + IndexOf(Digits, SubSeq(s, Len(s), Len(s)))

RECURSIVE Split(_, _)
Split(s, sep) ==
  LET i == IndexOf(s, sep)
  IN  IF i = -1 THEN <<s>> ELSE <<SubSeq(s, 1, i)>> \o Split(Slice(s, i + Len(sep)), sep)

\* new SemVer(version): v?MAJOR.MINOR.PATCH(-PRERELEASE)? of the trimmed string;
\* versions with build metadata (+...) are outside the universe of the model
ParseSemVer(version) ==
  LET t == Trim(version)
      u == IF IndexOf(t, "v") = 0 THEN Slice(t, 1) ELSE t
      dash == IndexOf(u, "-")
      main == IF dash = -1 THEN u ELSE SubSeq(u, 1, dash)
      parts == Split(main, ".")
      pre == IF dash = -1 THEN <<>> ELSE Split(Slice(u, dash + 1), ".")
      ok == /\ Len(parts) = 3
            /\ \A i \in 1..Len(parts) : IsNumericId(parts[i])
            /\ \A i \in 1..Len(pre) : IsNumericId(pre[i]) \/ IsAlphanumId(pre[i])
  IN  IF ok
      THEN [valid |-> TRUE, major |-> ParseNat(parts[1]), minor |-> ParseNat(parts[2]),
            patch |-> ParseNat(parts[3]), prerelease |-> pre]
      ELSE [valid |-> FALSE, major |-> 0, minor |-> 0, patch |-> 0, prerelease |-> <<>>]

Sign(a, b) == IF a < b THEN -1 ELSE IF a > b THEN 1 ELSE 0

\* a < b on strings, by code units
RECURSIVE StrLess(_, _)
StrLess(a, b) ==
  IF b = "" THEN FALSE
  ELSE IF a = "" THEN TRUE
  ELSE LET x == IndexOf(IdChars, SubSeq(a, 1, 1))
           y == IndexOf(IdChars, SubSeq(b, 1, 1))
       IN  IF x # y THEN x < y ELSE StrLess(Slice(a, 1), Slice(b, 1))

\* compareIdentifiers: numeric identifiers by value and below alphanumeric ones
CompareIdentifiers(a, b) ==
  IF IsDigits(a) /\ IsDigits(b) THEN Sign(ParseNat(a), ParseNat(b))
  ELSE IF IsDigits(a) THEN -1
  ELSE IF IsDigits(b) THEN 1
  ELSE IF a = b THEN 0
  ELSE IF StrLess(a, b) THEN -1 ELSE 1

\* SemVer.compareMain
CompareMain(a, b) ==
  IF a.major # b.major THEN Sign(a.major, b.major)
  ELSE IF a.minor # b.minor THEN Sign(a.minor, b.minor)
  ELSE Sign(a.patch, b.patch)

RECURSIVE ComparePreFrom(_, _, _)
ComparePreFrom(p, q, i) ==
  IF i > Len(p) /\ i > Len(q) THEN 0
  ELSE IF i > Len(q) THEN 1
  ELSE IF i > Len(p) THEN -1
  ELSE IF p[i] = q[i] THEN ComparePreFrom(p, q, i + 1)
  ELSE CompareIdentifiers(p[i], q[i])

\* SemVer.comparePre: a version with a pre-release is below the same version without
ComparePre(a, b) ==
  IF Len(a.prerelease) > 0 /\ Len(b.prerelease) = 0 THEN -1
  ELSE IF Len(a.prerelease) = 0 /\ Len(b.prerelease) > 0 THEN 1
  ELSE IF Len(a.prerelease) = 0 /\ Len(b.prerelease) = 0 THEN 0
  ELSE ComparePreFrom(a.prerelease, b.prerelease, 1)

SemverCompare(v, w) ==
  LET a == ParseSemVer(v)
      b == ParseSemVer(w)
  IN  IF CompareMain(a, b) # 0 THEN CompareMain(a, b) ELSE ComparePre(a, b)

\* semver throws TypeError('Invalid Version: ...') on a string it cannot parse
SemverValid(v) == ParseSemVer(v).valid

\* a slip that compares with "less than"
SemverLt(v, w) == SemverCompare(v, w) < 0

SemverLte(v, w) == SemverCompare(v, w) <= 0

\* the fixed threshold of line 76
LegacyThreshold == "0.0.85"

(***************************************************************************)
(* Lock files (lines 56-72)                                                *)
(***************************************************************************)
ScullyPackage == "@scullyio/scully"

Entry(k, v) == [key |-> k, version |-> v]

\* parsed yarn.lock objects: entries keyed "<name>@<range>", in file order
\* (yarn writes its lock file sorted by key, and "-" sorts before "@")
YarnLockFiles ==
  { <<Entry("@scullyio/scully@^0.0.85", "0.0.85")>>,
    <<Entry("@scullyio/scully@^0.0.86", "0.0.86")>>,
    <<Entry("@scullyio/scully@0.0.85-beta", "0.0.85-beta")>>,
    <<Entry("@scullyio/init@^0.0.20", "0.0.28"), Entry("@scullyio/scully@^0.0.9", "0.0.9")>>,
    <<Entry("@scullyio/scully-plugin-x@^0.0.3", "0.0.3"), Entry("@scullyio/scully@^1.0.0", "1.0.0")>>,
    <<Entry("@scullyio/scully-plugin-x@^1.2.0", "1.2.0"), Entry("@scullyio/scully@^0.0.80", "0.0.80")>>,
    <<Entry("@scullyio/scully-plugin-x@^0.0.3", "0.0.3")>>,
    <<Entry("@angular/core@^9.0.0", "9.0.0")>> }

\* parsed package-lock.json dependency maps: entries keyed by the package name
NpmLockFiles ==
  { <<Entry("@scullyio/scully", "0.0.80")>>,
    <<Entry("@scullyio/scully", "0.0.85")>>,
    <<Entry("@scullyio/scully", "0.0.86")>>,
    <<Entry("@scullyio/scully", "0.0.85-beta")>>,
    <<Entry("@scullyio/scully-plugin-x", "0.0.3"), Entry("@scullyio/scully", "0.0.100")>>,
    <<Entry("@scullyio/scully", "next")>>,
    <<Entry("@angular/core", "9.0.0")>> }

\* the value of a lookup that found nothing
Undefined == "<undefined>"

\* /@scullyio\/scully/.test(p)
MatchesScully(e) == IndexOf(e.key, ScullyPackage) >= 0

\* Object.keys(yarnLockParsed.object).filter(...)
GetScullyChildObjectKey(obj) == SelectSeq(obj, MatchesScully)

\* yarnLockParsed.object[getScullyChildObjectKey[0]].version
YarnScullyVersion(obj) ==
  LET keys == GetScullyChildObjectKey(obj)
  IN  IF Len(keys) = 0 THEN Undefined ELSE keys[1].version

\* packageLockJsonParsed.dependencies['@scullyio/scully'].version
NpmScullyVersion(deps) ==
  LET hit == SelectSeq(deps, LAMBDA e : e.key = ScullyPackage)
  IN  IF Len(hit) = 0 THEN Undefined ELSE hit[1].version

(***************************************************************************)
(* External calls and the values they raise                                *)
(***************************************************************************)
Absent == "<absent>"

\* the files of the checkout the script looks at, and what they may hold
Paths == {"./yarn.lock", "./CNAME", "./dist/static/CNAME", "./dist/static/.git/HEAD"}
FileContents == {Absent, "lockfile", "site.example", "stale.example",
                 "refs/heads/main", "refs/heads/master"}

\* a slip that leaves the working directory of the git commands at the project root
DistDirRoot == ""

DistDir == "./dist/static"

\* exec.exec(commandLine, args, {cwd}); cwd "" is the process's working directory
Exec(cmd, args, cwd) == [op |-> "exec", cmd |-> cmd, args |-> args, cwd |-> cwd]
\* ioUtil.exists(path)
Exists(path) == [op |-> "exists", cmd |-> path, args |-> <<>>, cwd |-> ""]
\* readFileSync(path, 'utf8')
ReadFile(path) == [op |-> "readFile", cmd |-> path, args |-> <<>>, cwd |-> ""]
\* io.cp(source, dest, {force: true})
Cp(source, dest) == [op |-> "cp", cmd |-> source, args |-> <<dest, "force">>, cwd |-> ""]

RECURSIVE JoinArgs(_)
JoinArgs(args) == IF args = <<>> THEN "" ELSE " " \o Head(args) \o JoinArgs(Tail(args))

\* exec.exec is called without {silent: true}, so before it spawns the tool it writes
\* the line "[command]<command line and arguments>" to the log
CommandEcho(cmd, args) == <<"[command]" \o cmd \o JoinArgs(args)>>

NotRaised == [kind |-> "none", message |-> ""]
ErrorOf(msg) == [kind |-> "Error", message |-> msg]
\* a rejection with a value that is not an instance of Error
NonError(msg) == [kind |-> "other", message |-> msg]

\* the tool of a command line: its first word
Tool(cmd) == IF IndexOf(cmd, " ") = -1 THEN cmd ELSE SubSeq(cmd, 1, IndexOf(cmd, " "))

\* what a failing external command, probe or copy rejects with
ExecFailures(cmd) ==
  { ErrorOf("The process '" \o Tool(cmd) \o "' failed with exit code 1"),
    NonError("rejected: " \o Tool(cmd)) }

IoFailures(path) ==
  { ErrorOf("EACCES: permission denied, " \o path), NonError("rejected: " \o path) }

ConfigErrorMsg ==
  "No personal access token found. Please provide one by setting the 'access-token' input for this action."

(***************************************************************************)
(* The script                                                              *)
(***************************************************************************)
Init ==
  /\ pc = "token"
  /\ accessTokenIn \in TokenInputs
  /\ deployBranchIn \in BranchInputs
  /\ ref \in Refs
  /\ fs \in {f \in [Paths -> FileContents] :
               /\ f["./yarn.lock"] \in {Absent, "lockfile"}
               /\ f["./CNAME"] \in {Absent, "site.example"}
               /\ f["./dist/static/CNAME"] = Absent
               /\ f["./dist/static/.git/HEAD"] = Absent}
  /\ accessToken = ""
  /\ deployBranch = ""
  /\ pkgManager = ""
  /\ buildArgsIn = ""
  /\ scullyArgsIn = ""
  /\ buildArgs = ""
  /\ scullyArgs = ""
  /\ lockParsed = <<>>
  /\ scullyVersion = Undefined
  /\ trace = <<>>
  /\ log = <<>>
  /\ raised = NotRaised
  /\ failed = FALSE
  /\ failureMsg = ""
  /\ success = FALSE
  /\ argIn = ""
  /\ argOut = ""

\* a handler that lets the failed step run again
CatchRetry(e) ==
  /\ pc' = pc
  /\ raised' = e
  /\ UNCHANGED <<failed, failureMsg>>

\* } catch (error) { if (error instanceof Error) core.setFailed(error.message); }
Catch(e) ==
  /\ pc' = "done"
  /\ raised' = e
  /\ IF e.kind = "Error"
     THEN failed' = TRUE /\ failureMsg' = e.message
     ELSE UNCHANGED <<failed, failureMsg>>

\* a script that goes from the install straight to the version lookup
AfterSkippingBuild(step) ==
  CASE step = "token" -> "branch"
    [] step = "branch" -> "probe"
    [] step = "probe" -> "install"
    [] step = "install" -> "version"
    [] step = "build" -> "version"
    [] step = "version" -> "generate"
    [] step = "generate" -> "cname"
    [] step = "cname" -> "copy"
    [] step = "copy" -> "gitinit"
    [] step = "gitinit" -> "gitname"
    [] step = "gitname" -> "gitemail"
    [] step = "gitemail" -> "gitadd"
    [] step = "gitadd" -> "gitcommit"
    [] step = "gitcommit" -> "gitpush"
    [] step = "gitpush" -> "finish"
    [] OTHER -> "done"

\* a script that reports success without pushing
AfterSkippingPush(step) ==
  CASE step = "token" -> "branch"
    [] step = "branch" -> "probe"
    [] step = "probe" -> "install"
    [] step = "install" -> "build"
    [] step = "build" -> "version"
    [] step = "version" -> "generate"
    [] step = "generate" -> "cname"
    [] step = "cname" -> "copy"
    [] step = "copy" -> "gitinit"
    [] step = "gitinit" -> "gitname"
    [] step = "gitname" -> "gitemail"
    [] step = "gitemail" -> "gitadd"
    [] step = "gitadd" -> "gitcommit"
    [] step = "gitcommit" -> "finish"
    [] step = "gitpush" -> "finish"
    [] OTHER -> "done"

\* the statement order of the try block: the step that follows a completed step
After(step) ==
  CASE step = "token" -> "branch"
    [] step = "branch" -> "probe"
    [] step = "probe" -> "install"
    [] step = "install" -> "build"
    [] step = "build" -> "version"
    [] step = "version" -> "generate"
    [] step = "generate" -> "cname"
    [] step = "cname" -> "copy"
    [] step = "copy" -> "gitinit"
    [] step = "gitinit" -> "gitname"
    [] step = "gitname" -> "gitemail"
    [] step = "gitemail" -> "gitadd"
    [] step = "gitadd" -> "gitcommit"
    [] step = "gitcommit" -> "gitpush"
    [] step = "gitpush" -> "finish"
    [] OTHER -> "done"

\* the step completed: control moves on inside the try block
Goto(next) == pc' = next /\ UNCHANGED <<raised, failed, failureMsg>>

\* if (!accessToken): the empty string is the only falsy string
TokenPresent(token) == token # ""

\* lines 14-20
CheckToken ==
  /\ pc = "token"
  /\ accessToken' = GetInput(accessTokenIn)
  /\ IF ~TokenPresent(accessToken')
     THEN /\ pc' = "done"
          /\ failed' = TRUE
          /\ failureMsg' = ConfigErrorMsg
          /\ UNCHANGED raised
     ELSE Goto(After("token"))
  /\ UNCHANGED <<accessTokenIn, deployBranchIn, ref, fs, deployBranch, pkgManager,
                 buildArgsIn, scullyArgsIn, buildArgs, scullyArgs, lockParsed,
                 scullyVersion, trace, log, success, argIn, argOut>>

DEFAULT_DEPLOY_BRANCH == "main"

\* let deployBranch = core.getInput('deploy-branch'); if (!deployBranch) deployBranch = DEFAULT_DEPLOY_BRANCH
ResolveDeployBranch(raw) ==
  IF GetInput(raw) = "" THEN DEFAULT_DEPLOY_BRANCH ELSE GetInput(raw)

\* a guard that never recognises the deploy branch
IsDeployRefNever(r, branch) == FALSE

\* a guard that takes any ref beginning with the deploy ref for the deploy branch
IsDeployRefPrefix(r, branch) == IndexOf(r, "refs/heads/" \o branch) = 0

\* github.context.ref === `refs/heads/${deployBranch}`
IsDeployRef(r, branch) == r = "refs/heads/" \o branch

\* lines 22-29
EarlyExitGuard ==
  /\ pc = "branch"
  /\ deployBranch' = ResolveDeployBranch(deployBranchIn)
  /\ IF IsDeployRef(ref, deployBranch')
     THEN /\ log' = log \o <<"Triggered by branch used to deploy: " \o ref \o ".",
                             "Nothing to deploy.">>
          /\ Goto("done")
     ELSE /\ UNCHANGED log
          /\ Goto(After("branch"))
  /\ UNCHANGED <<accessTokenIn, deployBranchIn, ref, fs, accessToken, pkgManager,
                 buildArgsIn, scullyArgsIn, buildArgs, scullyArgs, lockParsed,
                 scullyVersion, trace, success, argIn, argOut>>

\* (await ioUtil.exists('./yarn.lock')) ? 'yarn' : 'npm'
ChoosePkgManager(yarnLockExists) == IF yarnLockExists THEN "yarn" ELSE "npm"

\* lines 31-33
DetectPkgManager ==
  /\ pc = "probe"
  /\ trace' = Append(trace, Exists("./yarn.lock"))
  /\ \/ /\ pkgManager' = ChoosePkgManager(fs["./yarn.lock"] # Absent)
        /\ log' = Append(log, "Installing your site's dependencies using " \o pkgManager' \o ".")
        /\ Goto(After("probe"))
     \/ /\ \E e \in IoFailures("./yarn.lock") : Catch(e)
        /\ UNCHANGED <<pkgManager, log>>
  /\ UNCHANGED <<accessTokenIn, deployBranchIn, ref, fs, accessToken, deployBranch,
                 buildArgsIn, scullyArgsIn, buildArgs, scullyArgs, lockParsed,
                 scullyVersion, success, argIn, argOut>>

\* const installCmd = pkgManager === 'yarn' ? 'install --frozen-lockfile' : 'ci'
InstallCmd(pm) == IF pm = "yarn" THEN "install --frozen-lockfile" ELSE "ci"

\* an external command may create or delete the yarn lock file
LockFileAfterCommand == {Absent, "lockfile"}

\* lines 34-35
Install ==
  /\ pc = "install"
  /\ LET cmd == pkgManager \o " " \o InstallCmd(pkgManager)
     IN  /\ trace' = Append(trace, Exec(cmd, <<>>, ""))
         /\ \/ /\ \E f \in LockFileAfterCommand : fs' = [fs EXCEPT !["./yarn.lock"] = f]
               /\ log' = log \o CommandEcho(cmd, <<>>) \o <<"Finished installing dependencies.">>
               /\ Goto(After("install"))
            \/ /\ \E e \in ExecFailures(cmd) : Catch(e)
               /\ log' = log \o CommandEcho(cmd, <<>>)
               /\ UNCHANGED fs
  /\ UNCHANGED <<accessTokenIn, deployBranchIn, ref, accessToken, deployBranch, pkgManager,
                 buildArgsIn, scullyArgsIn, buildArgs, scullyArgs, lockParsed,
                 scullyVersion, success, argIn, argOut>>

\* lines 37-53
Build ==
  /\ pc = "build"
  /\ \E b \in BuildArgInputs, s \in ScullyArgInputs :
       /\ buildArgsIn' = b
       /\ scullyArgsIn' = s
  /\ buildArgs' = NormalizeBuildArgs(buildArgsIn')
  /\ scullyArgs' = NormalizeScullyArgs(scullyArgsIn')
  /\ LET cmd == pkgManager \o " run build " \o buildArgs'
         before == <<"Ready to build your Scully site!", "Building with: " \o cmd>>
     IN  /\ trace' = Append(trace, Exec(cmd, <<>>, ""))
         /\ \/ /\ \E f \in LockFileAfterCommand : fs' = [fs EXCEPT !["./yarn.lock"] = f]
               /\ log' = log \o before \o CommandEcho(cmd, <<>>)
                             \o <<"Finished building your site.">>
               /\ Goto(After("build"))
            \/ /\ \E e \in ExecFailures(cmd) : Catch(e)
               /\ log' = log \o before \o CommandEcho(cmd, <<>>)
               /\ UNCHANGED fs
  /\ UNCHANGED <<accessTokenIn, deployBranchIn, ref, accessToken, deployBranch, pkgManager,
                 lockParsed, scullyVersion, success, argIn, argOut>>

\* a lookup that always reads the npm lock file
LockFilePathNpm(pm) == "./package-lock.json"

\* if (pkgManager === 'yarn') ... './yarn.lock' ... else ... './package-lock.json'
LockFilePath(pm) == IF pm = "yarn" THEN "./yarn.lock" ELSE "./package-lock.json"

\* the lock files a read may find, and the version the code takes from one
LockFiles(path) == IF path = "./yarn.lock" THEN YarnLockFiles ELSE NpmLockFiles
LookupVersion(path, lock) ==
  IF path = "./yarn.lock" THEN YarnScullyVersion(lock) ELSE NpmScullyVersion(lock)

\* lines 55-73; readFileSync, the parsers and the property access raise Errors
ResolveVersion ==
  /\ pc = "version"
  /\ LET path == LockFilePath(pkgManager)
         intro == "Determine Scully version from '" \o path \o "'."
     IN  /\ trace' = Append(trace, ReadFile(path))
         /\ \/ /\ path = "./yarn.lock" => fs[path] = Absent
               /\ Catch(ErrorOf("ENOENT: no such file or directory, open '" \o path \o "'"))
               /\ log' = Append(log, intro)
               /\ UNCHANGED <<lockParsed, scullyVersion>>
            \/ /\ path = "./yarn.lock" => fs[path] # Absent
               /\ Catch(ErrorOf("Unexpected token in " \o path))
               /\ log' = Append(log, intro)
               /\ UNCHANGED <<lockParsed, scullyVersion>>
            \/ /\ path = "./yarn.lock" => fs[path] # Absent
               /\ \E lock \in LockFiles(path) :
                    /\ lockParsed' = lock
                    /\ IF LookupVersion(path, lock) = Undefined
                       THEN /\ Catch(ErrorOf("Cannot read property 'version' of undefined"))
                            /\ log' = Append(log, intro)
                            /\ UNCHANGED scullyVersion
                       ELSE /\ scullyVersion' = LookupVersion(path, lock)
                            /\ log' = log \o <<intro, "Scully Version " \o scullyVersion' \o " is used">>
                            /\ Goto(After("version"))
  /\ UNCHANGED <<accessTokenIn, deployBranchIn, ref, fs, accessToken, deployBranch, pkgManager,
                 buildArgsIn, scullyArgsIn, buildArgs, scullyArgs, success, argIn, argOut>>

\* if (semver.lte(scullyVersion, '0.0.85')) scullyArgs = `--nw ${scullyArgs}`
WithLegacyFlag(version, args) ==
  IF SemverLte(version, LegacyThreshold) THEN "--nw " \o args ELSE args

\* the generator may leave a CNAME of an earlier deployment in its output
DistCnameAfterGenerate == {Absent, "stale.example"}

\* lines 75-82 for a version of the given validity and the arguments after line 78
GenerateStep(valid, flagged) ==
  /\ pc = "generate"
  /\ \/ /\ ~valid
        /\ Catch(ErrorOf("Invalid Version: " \o scullyVersion))
        /\ UNCHANGED <<scullyArgs, trace, log, fs>>
     \/ /\ valid
        /\ LET cmd == pkgManager \o " run scully -- " \o flagged
               before == IF flagged # scullyArgs
                         THEN <<"Scully Version is less then '0.0.85', adding '--nw' flag">>
                         ELSE <<>>
           IN  /\ scullyArgs' = flagged
               /\ trace' = Append(trace, Exec(cmd, <<>>, ""))
               /\ \/ /\ \E c \in DistCnameAfterGenerate :
                          fs' = [fs EXCEPT !["./dist/static/CNAME"] = c]
                     /\ log' = log \o before \o CommandEcho(cmd, <<>>)
                                   \o <<"Finished Scullying your site.">>
                     /\ Goto(After("generate"))
                  \/ /\ \E e \in ExecFailures(cmd) : Catch(e)
                     /\ log' = log \o before \o CommandEcho(cmd, <<>>)
                     /\ UNCHANGED fs
  /\ UNCHANGED <<accessTokenIn, deployBranchIn, ref, accessToken, deployBranch, pkgManager,
                 buildArgsIn, scullyArgsIn, buildArgs, lockParsed, scullyVersion,
                 success, argIn, argOut>>

\* lines 75-82; semver.lte raises a TypeError on a version it cannot parse
Generate ==
  GenerateStep(SemverValid(scullyVersion),
               IF SemverValid(scullyVersion)
               THEN WithLegacyFlag(scullyVersion, scullyArgs) ELSE scullyArgs)

\* line 84
ProbeCname ==
  /\ pc = "cname"
  /\ trace' = Append(trace, Exists("./CNAME"))
  /\ \/ Goto(IF fs["./CNAME"] # Absent THEN After("cname") ELSE After("copy"))
     \/ \E e \in IoFailures("./CNAME") : Catch(e)
  /\ UNCHANGED <<accessTokenIn, deployBranchIn, ref, fs, accessToken, deployBranch, pkgManager,
                 buildArgsIn, scullyArgsIn, buildArgs, scullyArgs, lockParsed,
                 scullyVersion, log, success, argIn, argOut>>

\* a copy that keeps a file already at the destination
CpKeepExisting(source, dest) == IF dest # Absent THEN dest ELSE source

\* io.cp(..., { force: true }): what the destination holds after the copy
CpForce(source, dest) == source

\* lines 85-89
CopyCname ==
  /\ pc = "copy"
  /\ trace' = Append(trace, Cp("./CNAME", "./dist/static/CNAME"))
  /\ \/ /\ fs' = [fs EXCEPT !["./dist/static/CNAME"] = CpForce(fs["./CNAME"], @)]
        /\ log' = log \o <<"Copying CNAME over.", "Finished copying CNAME.">>
        /\ Goto(After("copy"))
     \/ /\ \E e \in IoFailures("./dist/static/CNAME") : Catch(e)
        /\ log' = Append(log, "Copying CNAME over.")
        /\ UNCHANGED fs
  /\ UNCHANGED <<accessTokenIn, deployBranchIn, ref, accessToken, deployBranch, pkgManager,
                 buildArgsIn, scullyArgsIn, buildArgs, scullyArgs, lockParsed,
                 scullyVersion, success, argIn, argOut>>

\* an exec.exec call of the deployment part, with the lines logged before and after it;
\* the command can exit with 0 only if canSucceed, and then leaves one of the file systems of effects
ExecStep(step, cmd, args, cwd, before, after, canSucceed, effects) ==
  /\ pc = step
  /\ trace' = Append(trace, Exec(cmd, args, cwd))
  /\ \/ /\ canSucceed
        /\ fs' \in effects
        /\ log' = log \o before \o CommandEcho(cmd, args) \o after
        /\ Goto(After(step))
     \/ /\ \E e \in ExecFailures(cmd) : Catch(e)
        /\ log' = log \o before \o CommandEcho(cmd, args)
        /\ UNCHANGED fs
  /\ UNCHANGED <<accessTokenIn, deployBranchIn, ref, accessToken, deployBranch, pkgManager,
                 buildArgsIn, scullyArgsIn, buildArgs, scullyArgs, lockParsed,
                 scullyVersion, success, argIn, argOut>>

\* const repo = `${github.context.repo.owner}/${github.context.repo.repo}`
RepoName == Owner \o "/" \o Repo

\* const repoURL = `https://${accessToken}@github.com/${repo}.git`
RepoURL(token) == "https://" \o token \o "@github.com/" \o RepoName \o ".git"

\* the branch git init puts HEAD on: init.defaultBranch of the runner, master when unset
InitialBranches == {"refs/heads/main", "refs/heads/master"}

\* lines 91-96
GitInit ==
  ExecStep("gitinit", "git init", <<>>, DistDir,
           <<"Ready to deploy your new shiny site!",
             "Deploying to repo: " \o RepoName \o " and branch: " \o deployBranch,
             "You can configure the deploy branch by setting the 'deploy-branch' input for this action.">>,
           <<>>, TRUE,
           {[fs EXCEPT !["./dist/static/.git/HEAD"] = b] : b \in InitialBranches})

\* lines 97-99
GitConfigName ==
  ExecStep("gitname", "git config user.name", <<Actor>>, DistDir, <<>>, <<>>, TRUE, {fs})

\* lines 100-102
GitConfigEmail ==
  ExecStep("gitemail", "git config user.email", <<Actor \o "@users.noreply.github.com">>,
           DistDir, <<>>, <<>>, TRUE, {fs})

\* line 103
GitAdd == ExecStep("gitadd", "git add", <<".">>, DistDir, <<>>, <<>>, TRUE, {fs})

\* lines 104-106
GitCommit ==
  ExecStep("gitcommit", "git commit",
           <<"-m", "deployed via Scully Publish Action <tophat> for " \o Sha>>, DistDir,
           <<>>, <<>>, TRUE, {fs})

\* lines 107-110
\* the source of the refspec `main:${deployBranch}`
PushSource == "main"

\* git push exits with 0 only if the source branch of the refspec exists in the local repository
GitPush ==
  ExecStep("gitpush", "git push",
           <<"-f", RepoURL(accessToken), PushSource \o ":" \o deployBranch>>,
           DistDir, <<>>, <<"Finished deploying your site.">>,
           fs["./dist/static/.git/HEAD"] = "refs/heads/" \o PushSource, {fs})

\* lines 112-113
Finish ==
  /\ pc = "finish"
  /\ log' = Append(log, "Enjoy! <sparkles>")
  /\ success' = TRUE
  /\ Goto(After("finish"))
  /\ UNCHANGED <<accessTokenIn, deployBranchIn, ref, fs, accessToken, deployBranch, pkgManager,
                 buildArgsIn, scullyArgsIn, buildArgs, scullyArgs, lockParsed,
                 scullyVersion, trace, argIn, argOut>>

Next ==
  \/ CheckToken
  \/ EarlyExitGuard
  \/ DetectPkgManager
  \/ Install
  \/ Build
  \/ ResolveVersion
  \/ Generate
  \/ ProbeCname
  \/ CopyCname
  \/ GitInit
  \/ GitConfigName
  \/ GitConfigEmail
  \/ GitAdd
  \/ GitCommit
  \/ GitPush
  \/ Finish

Spec == Init /\ [][Next]_vars

(***************************************************************************)
(* The argument normalizations on their own, over every raw string of up   *)
(* to MaxArgLen characters                                                 *)
(***************************************************************************)
ArgsInit ==
  /\ pc = "args"
  /\ argIn \in ArgStrings
  /\ argOut = ""
  /\ accessTokenIn = "s3cr3t"
  /\ deployBranchIn = ""
  /\ ref = "refs/heads/dev"
  /\ fs = [p \in Paths |-> Absent]
  /\ accessToken = ""
  /\ deployBranch = ""
  /\ pkgManager = ""
  /\ buildArgsIn = ""
  /\ scullyArgsIn = ""
  /\ buildArgs = ""
  /\ scullyArgs = ""
  /\ lockParsed = <<>>
  /\ scullyVersion = Undefined
  /\ trace = <<>>
  /\ log = <<>>
  /\ raised = NotRaised
  /\ failed = FALSE
  /\ failureMsg = ""
  /\ success = FALSE

\* lines 37-41 applied to argIn
ApplyBuildArgs ==
  /\ pc = "args"
  /\ argOut' = NormalizeBuildArgs(argIn)
  /\ pc' = "buildArgs"
  /\ UNCHANGED <<accessTokenIn, deployBranchIn, ref, fs, accessToken, deployBranch, pkgManager,
                 buildArgsIn, scullyArgsIn, buildArgs, scullyArgs, lockParsed, scullyVersion,
                 trace, log, raised, failed, failureMsg, success, argIn>>

\* lines 43-48 applied to argIn
ApplyScullyArgs ==
  /\ pc = "args"
  /\ argOut' = NormalizeScullyArgs(argIn)
  /\ pc' = "scullyArgs"
  /\ UNCHANGED <<accessTokenIn, deployBranchIn, ref, fs, accessToken, deployBranch, pkgManager,
                 buildArgsIn, scullyArgsIn, buildArgs, scullyArgs, lockParsed, scullyVersion,
                 trace, log, raised, failed, failureMsg, success, argIn>>

ArgsNext ==
  \/ ApplyBuildArgs
  \/ ApplyScullyArgs

ArgsSpec == ArgsInit /\ [][ArgsNext]_vars

(***************************************************************************)
(* Vocabulary of the properties                                            *)
(***************************************************************************)
\* every character of s is a space
IsBlank(s) == \A i \in 1..Len(s) : SubSeq(s, i, i) = " "

StartsWith(s, prefix) == Len(s) >= Len(prefix) /\ SubSeq(s, 1, Len(prefix)) = prefix

\* t is s without its leading and trailing spaces
IsStrippedOf(t, s) ==
  \E a \in 0..Len(s) :
    /\ a + Len(t) <= Len(s)
    /\ SubSeq(s, a + 1, a + Len(t)) = t
    /\ IsBlank(SubSeq(s, 1, a))
    /\ IsBlank(SubSeq(s, a + Len(t) + 1, Len(s)))
    /\ t # "" => SubSeq(t, 1, 1) # " " /\ SubSeq(t, Len(t), Len(t)) # " "

\* the substrings of s
Substrings(s) == {SubSeq(s, i, j) : i \in 1..(Len(s) + 1), j \in 0..Len(s)}

\* the external actions of a run, probes left out
Actions == SelectSeq(trace, LAMBDA ev : ev.op # "exists")

\* what an external action is, read off the call that was issued
Label(ev) ==
  CASE ev.op = "readFile" -> "lookup"
    [] ev.op = "cp" -> "copy"
    [] ev.op = "exec" /\ ev.cmd \in {"npm ci", "yarn install --frozen-lockfile"} -> "install"
    [] ev.op = "exec" /\ (StartsWith(ev.cmd, "npm run build") \/ StartsWith(ev.cmd, "yarn run build"))
         -> "build"
    [] ev.op = "exec" /\ (StartsWith(ev.cmd, "npm run scully") \/ StartsWith(ev.cmd, "yarn run scully"))
         -> "generate"
    [] ev.op = "exec" /\ ev.cmd = "git init" -> "git init"
    [] ev.op = "exec" /\ ev.cmd = "git config user.name" -> "git config user.name"
    [] ev.op = "exec" /\ ev.cmd = "git config user.email" -> "git config user.email"
    [] ev.op = "exec" /\ ev.cmd = "git add" -> "git add"
    [] ev.op = "exec" /\ ev.cmd = "git commit" -> "git commit"
    [] ev.op = "exec" /\ ev.cmd = "git push" -> "git push"
    [] OTHER -> "unknown"

Labels == [i \in 1..Len(Actions) |-> Label(Actions[i])]

\* the order the specification gives, with the copy when ./CNAME exists
ExpectedOrder ==
  <<"install", "build", "lookup", "generate">>
  \o (IF fs["./CNAME"] # Absent THEN <<"copy">> ELSE <<>>)
  \o <<"git init", "git config user.name", "git config user.email", "git add",
       "git commit", "git push">>

IsPrefix(p, q) == Len(p) <= Len(q) /\ p = SubSeq(q, 1, Len(p))

(***************************************************************************)
(* C1: a run whose access-token input is empty or only whitespace ends     *)
(* with the configuration error recorded; it issues no command, probe,     *)
(* read or copy, and never sets the success output.                        *)
(***************************************************************************)
C1_BlankTokenAborts ==
  IsBlank(accessTokenIn) =>
    /\ pc \in {"token", "done"}
    /\ trace = <<>>
    /\ ~success
    /\ pc = "done" => failed /\ failureMsg = ConfigErrorMsg

C1_Witness == pc = "done" /\ accessTokenIn = " " /\ failed /\ trace = <<>>

(***************************************************************************)
(* C2 as claimed: with a token, a run triggered by refs/heads/<deploy      *)
(* branch> issues no command and reports success through the success       *)
(* output.                                                                 *)
(***************************************************************************)
TriggeredByDeployBranch ==
  /\ ~IsBlank(accessTokenIn)
  /\ ref = "refs/heads/" \o (IF deployBranchIn = "" THEN "main" ELSE deployBranchIn)

C2_Original ==
  TriggeredByDeployBranch /\ pc = "done" => trace = <<>> /\ success

(***************************************************************************)
(* C2 as amended: with a token, a run triggered by refs/heads/<deploy      *)
(* branch> issues no command, probe or copy and ends with no failure       *)
(* recorded; the success output stays unset.                               *)
(***************************************************************************)
C2_EarlyExit ==
  TriggeredByDeployBranch =>
    /\ pc \in {"token", "branch", "done"}
    /\ trace = <<>>
    /\ ~failed
    /\ ~success

C2_Witness ==
  /\ TriggeredByDeployBranch
  /\ pc = "done"
  /\ deployBranchIn = ""
  /\ log = <<"Triggered by branch used to deploy: refs/heads/main.", "Nothing to deploy.">>

(***************************************************************************)
(* C3: the external actions of a run are issued in the order install,      *)
(* build, lock-file lookup, generate, (CNAME copy when ./CNAME exists),    *)
(* git init, git config user.name, git config user.email, git add, git     *)
(* commit, git push: every trace is a prefix of that sequence, nothing is  *)
(* issued after a failure, and success is set once the whole sequence has  *)
(* completed.                                                              *)
(***************************************************************************)
C3_Order ==
  /\ IsPrefix(Labels, ExpectedOrder)
  /\ raised # NotRaised => pc = "done"
  /\ success => Labels = ExpectedOrder
  /\ pc = "done" /\ raised = NotRaised /\ Labels = ExpectedOrder => success

C3_Witness == success /\ Labels = ExpectedOrder /\ fs["./CNAME"] # Absent

(***************************************************************************)
(* C4 as claimed: whatever value a step raises, the run records that       *)
(* value's message as the failure reason and issues nothing further.       *)
(***************************************************************************)
C4_Original ==
  raised # NotRaised => pc = "done" /\ failed /\ failureMsg = raised.message

C4_Witness == raised.kind = "Error" /\ failed /\ failureMsg = raised.message

(***************************************************************************)
(* C5: the success output and the failure message are never both set, and  *)
(* the success output is set only after the force-push, and every action   *)
(* before it, has completed without raising.                               *)
(***************************************************************************)
C5_Exclusive ==
  /\ ~(success /\ failed)
  /\ success =>
       /\ raised = NotRaised
       /\ Len(Actions) > 0
       /\ Actions[Len(Actions)].cmd = "git push"
       /\ Actions[Len(Actions)].args[1] = "-f"
       /\ "install" \in {Labels[i] : i \in 1..Len(Labels)}
       /\ "generate" \in {Labels[i] : i \in 1..Len(Labels)}

C5_Witness == success /\ ~failed /\ pc = "done"

(***************************************************************************)
(* C6: the package manager is chosen once, from the presence of            *)
(* ./yarn.lock at the probe (yarn with `install --frozen-lockfile` when    *)
(* present, npm with `ci` when absent), and that one choice decides the    *)
(* install, the build, the lock file that is read and the generator        *)
(* command, whatever happens to the file system afterwards.                *)
(***************************************************************************)
C6_Uses ==
  /\ Len(SelectSeq(trace, LAMBDA ev : ev = Exists("./yarn.lock"))) <= 1
  /\ Len(Actions) >= 1 =>
       /\ pkgManager \in {"yarn", "npm"}
       /\ Actions[1] = Exec(IF pkgManager = "yarn" THEN "yarn install --frozen-lockfile"
                            ELSE "npm ci", <<>>, "")
  /\ Len(Actions) >= 2 =>
       /\ Actions[2].op = "exec"
       /\ StartsWith(Actions[2].cmd, pkgManager \o " run build ")
  /\ Len(Actions) >= 3 =>
       Actions[3] = ReadFile(IF pkgManager = "yarn" THEN "./yarn.lock"
                             ELSE "./package-lock.json")
  /\ Len(Actions) >= 4 =>
       /\ Actions[4].op = "exec"
       /\ StartsWith(Actions[4].cmd, pkgManager \o " run scully -- ")

C6_Chosen ==
  /\ pc = "probe" /\ pc' = "install" =>
       pkgManager' = IF fs["./yarn.lock"] = Absent THEN "npm" ELSE "yarn"
  /\ pc # "probe" => pkgManager' = pkgManager

C6_ChosenOnce == [](C6_Uses) /\ [][C6_Chosen]_vars

C6_Witness ==
  /\ pkgManager = "npm"
  /\ fs["./yarn.lock"] # Absent
  /\ Len(Actions) >= 4
  /\ StartsWith(Actions[4].cmd, "npm run scully -- ")

(***************************************************************************)
(* C7: the generator command carries the legacy --nw flag exactly when the *)
(* resolved version is at most 0.0.85 in semantic-version order: 0.0.85    *)
(* and the pre-release 0.0.85-beta get it, 0.0.86 does not.                *)
(***************************************************************************)
\* the versions of the lock files of the model, by where semantic versioning puts them
AtOrBelowThreshold == {"0.0.3", "0.0.9", "0.0.80", "0.0.85-beta", "0.0.85"}
AboveThreshold == {"0.0.86", "0.0.100", "1.0.0", "1.2.0"}

GenerateIssued == Len(Actions) >= 4 /\ Actions[4].op = "exec"
GenerateCmd == Actions[4].cmd
HasLegacyFlag == StartsWith(GenerateCmd, pkgManager \o " run scully -- --nw ")

C7_LegacyFlag ==
  GenerateIssued =>
    /\ scullyVersion \in AtOrBelowThreshold \cup AboveThreshold
    /\ HasLegacyFlag <=> scullyVersion \in AtOrBelowThreshold

C7_Witness == GenerateIssued /\ scullyVersion = "0.0.85-beta" /\ HasLegacyFlag

(***************************************************************************)
(* C8 as claimed: for every raw build-args string, a blank input gives the *)
(* empty string, a non-blank input that does not start with "-- " gets     *)
(* "-- " prepended, an input that starts with "-- " is passed unchanged,   *)
(* and normalizing the result again changes nothing.                       *)
(***************************************************************************)
C8_Original ==
  pc = "buildArgs" =>
    /\ IsBlank(argIn) => argOut = ""
    /\ ~IsBlank(argIn) /\ ~StartsWith(argIn, "-- ") => argOut = "-- " \o argIn
    /\ StartsWith(argIn, "-- ") => argOut = argIn
    /\ NormalizeBuildArgs(argOut) = argOut

(***************************************************************************)
(* C8 as amended: the normalization acts on the raw build-args string      *)
(* stripped of its leading and trailing whitespace: an empty stripped      *)
(* input gives the empty string, a non-empty one that does not start with  *)
(* "-- " gets "-- " prepended, one that starts with "-- " is passed as it  *)
(* is, and normalizing the result again changes nothing.                   *)
(***************************************************************************)
C8_BuildArgs ==
  pc = "buildArgs" =>
    /\ \A t \in Substrings(argIn) :
         IsStrippedOf(t, argIn) =>
           /\ t = "" => argOut = ""
           /\ t # "" /\ ~StartsWith(t, "-- ") => argOut = "-- " \o t
           /\ StartsWith(t, "-- ") => argOut = t
    /\ NormalizeBuildArgs(argOut) = argOut

C8_Witness == pc = "buildArgs" /\ argIn = " a " /\ argOut = "-- a"

(***************************************************************************)
(* C9 as claimed: a raw scully-args string that begins with "-- " loses    *)
(* exactly that one prefix, any other string is unchanged, and the         *)
(* generator command is "<pkgManager> run scully -- ", then "--nw " when   *)
(* the legacy flag applies, then the normalized arguments.                 *)
(***************************************************************************)
LegacyFlag == IF scullyVersion \in AtOrBelowThreshold THEN "--nw " ELSE ""

C9_Original ==
  GenerateIssued =>
    GenerateCmd = pkgManager \o " run scully -- " \o LegacyFlag
                  \o (IF StartsWith(scullyArgsIn, "-- ")
                      THEN SubSeq(scullyArgsIn, 4, Len(scullyArgsIn))
                      ELSE scullyArgsIn)

(***************************************************************************)
(* C9 as amended: the normalization acts on the raw scully-args string     *)
(* stripped of its leading and trailing whitespace: a stripped input that  *)
(* begins with "-- " loses exactly that one prefix, any other is           *)
(* unchanged, and the generator command is "<pkgManager> run scully -- ",  *)
(* then "--nw " when the legacy flag applies, then the normalized          *)
(* arguments.                                                              *)
(***************************************************************************)
C9_ScullyArgs ==
  GenerateIssued =>
    \A t \in Substrings(scullyArgsIn) :
      IsStrippedOf(t, scullyArgsIn) =>
        GenerateCmd = pkgManager \o " run scully -- " \o LegacyFlag
                      \o (IF StartsWith(t, "-- ") THEN SubSeq(t, 4, Len(t)) ELSE t)

C9_Witness ==
  /\ GenerateIssued
  /\ scullyArgsIn = "-- -- bar"
  /\ GenerateCmd = "npm run scully -- --nw -- bar"

(***************************************************************************)
(* C10 as claimed: under yarn the version used for the flag is the version *)
(* of the lock-file entry whose package name is exactly @scullyio/scully,  *)
(* also when entries whose names only contain that string come first.      *)
(***************************************************************************)
\* the package name of a yarn.lock key "<name>@<range>": what precedes the last "@"
PkgName(key) ==
  LET ats == {i \in 1..Len(key) : SubSeq(key, i, i) = "@"}
  IN  SubSeq(key, 1, (CHOOSE i \in ats : \A j \in ats : i >= j) - 1)

C10_Original ==
  pkgManager = "yarn" /\ scullyVersion # Undefined =>
    \E i \in 1..Len(lockParsed) :
      /\ PkgName(lockParsed[i].key) = ScullyPackage
      /\ scullyVersion = lockParsed[i].version

C10_Witness ==
  /\ pkgManager = "yarn"
  /\ GenerateIssued
  /\ Len(lockParsed) = 2
  /\ scullyVersion = "0.0.9"

(***************************************************************************)
(* C11 as claimed: when the lock file cannot be read or parsed, or holds   *)
(* no entry for the generator package, the run ends failed with a message  *)
(* recorded, after the install and the build and before any generator,     *)
(* copy or git action.                                                     *)
(***************************************************************************)
\* the package an entry of the parsed lock file is about
EntryPackage(e) == IF pkgManager = "yarn" THEN PkgName(e.key) ELSE e.key

LookupOver == Len(Actions) >= 3 /\ Actions[3].op = "readFile" /\ pc # "version"

NoGeneratorEntry ==
  \A i \in 1..Len(lockParsed) : EntryPackage(lockParsed[i]) # ScullyPackage

C11_Original ==
  LookupOver /\ NoGeneratorEntry =>
    /\ pc = "done"
    /\ failed
    /\ failureMsg # ""
    /\ Labels = <<"install", "build", "lookup">>

C11_Witness ==
  /\ LookupOver
  /\ NoGeneratorEntry
  /\ lockParsed # <<>>
  /\ failed
  /\ failureMsg = "Cannot read property 'version' of undefined"
  /\ Labels = <<"install", "build", "lookup">>

(***************************************************************************)
(* C12 as claimed: on every path the access token appears in no line of    *)
(* the log and not in the recorded failure message; it appears only in     *)
(* the URL argument handed to the git push command.                        *)
(***************************************************************************)
Contains(s, t) == \E i \in 1..(Len(s) - Len(t) + 1) : SubSeq(s, i, i + Len(t) - 1) = t

TokenInCall(ev) ==
  Contains(ev.cmd, accessToken) \/ \E i \in 1..Len(ev.args) : Contains(ev.args[i], accessToken)

C12_Original ==
  accessToken # "" =>
    /\ \A i \in 1..Len(log) : ~Contains(log[i], accessToken)
    /\ ~Contains(failureMsg, accessToken)
    /\ \A i \in 1..Len(trace) :
         TokenInCall(trace[i]) =>
           /\ trace[i].op = "exec"
           /\ trace[i].cmd = "git push"
           /\ ~Contains(trace[i].args[1], accessToken)
           /\ ~Contains(trace[i].args[3], accessToken)

C12_Witness ==
  /\ accessToken # ""
  /\ \E i \in 1..Len(trace) : trace[i].cmd = "git push" /\ Contains(trace[i].args[2], accessToken)

(***************************************************************************)
(* C13: when ./CNAME exists it is copied over whatever the generated       *)
(* output holds, so that ./dist/static/CNAME equals ./CNAME, and the copy  *)
(* comes before git add and git commit; when ./CNAME is absent no copy is  *)
(* attempted and the run goes on to git init without failing.              *)
(***************************************************************************)
LabelSet == {Labels[i] : i \in 1..Len(Labels)}

\* the copy was issued and did not raise
CopyDoneIn(L) ==
  \E i \in 1..Len(L) : L[i] = "copy" /\ (i < Len(L) \/ raised = NotRaised)

CopyDone == CopyDoneIn(Labels)

C13_Cname ==
  LET L == Labels
      S == {L[i] : i \in 1..Len(L)}
  IN  /\ CopyDoneIn(L) =>
           /\ fs["./CNAME"] # Absent
           /\ fs["./dist/static/CNAME"] = fs["./CNAME"]
      /\ \A i \in 1..Len(L) :
           L[i] = "copy" =>
             \A j \in 1..i : L[j] \notin {"git init", "git add", "git commit", "git push"}
      /\ fs["./CNAME"] # Absent /\ "git add" \in S => CopyDoneIn(L)
      /\ fs["./CNAME"] = Absent =>
           /\ "copy" \notin S
           /\ (/\ trace # <<>>
               /\ trace[Len(trace)] = [op |-> "exists", cmd |-> "./CNAME", args |-> <<>>, cwd |-> ""]
               /\ raised = NotRaised
               /\ pc # "cname")
              => pc = "gitinit" /\ ~failed

C13_Witness ==
  /\ "git commit" \in LabelSet
  /\ CopyDone
  /\ fs["./dist/static/CNAME"] = "site.example"

(***************************************************************************)
(* C14 as claimed: the push step force-pushes the local default branch of  *)
(* the repository initialized in ./dist/static, the branch that holds the  *)
(* commit, to <deployBranch> on the remote, with the URL                   *)
(* https://<token>@github.com/<owner>/<repo>.git; deployBranch is the      *)
(* deploy-branch input, or main when that is empty.                        *)
(***************************************************************************)
PushIssued == trace # <<>> /\ trace[Len(trace)].cmd = "git push"

\* the name of the branch HEAD is on
LocalBranch ==
  LET head == fs["./dist/static/.git/HEAD"]
  IN  SubSeq(head, Len("refs/heads/") + 1, Len(head))

C14_Original ==
  PushIssued =>
    /\ trace[Len(trace)].cwd = "./dist/static"
    /\ trace[Len(trace)].args =
         << "-f",
            "https://" \o accessTokenIn \o "@github.com/octo/site.git",
            LocalBranch \o ":" \o (IF deployBranchIn = "" THEN "main" ELSE deployBranchIn) >>

C14_Witness ==
  /\ PushIssued
  /\ success
  /\ trace[Len(trace)].args = <<"-f", "https://s3cr3t@github.com/octo/site.git", "main:gh-pages">>

(***************************************************************************)
(* C15 as claimed: with a token, a run whose ref differs in any way from   *)
(* refs/heads/<deployBranch> does not take the early exit, and the install *)
(* command is issued.                                                      *)
(***************************************************************************)
TriggeredByOtherRef ==
  /\ ~IsBlank(accessTokenIn)
  /\ ref # "refs/heads/" \o (IF deployBranchIn = "" THEN "main" ELSE deployBranchIn)

InstallIssued ==
  \E i \in 1..Len(trace) :
    trace[i].op = "exec" /\ trace[i].cmd \in {"npm ci", "yarn install --frozen-lockfile"}

C15_Original ==
  TriggeredByOtherRef /\ pc = "done" => InstallIssued

(***************************************************************************)
(* C15 as amended: with a token, a run whose ref differs in any way from   *)
(* refs/heads/<deployBranch> does not take the early exit: it goes on to   *)
(* probe for ./yarn.lock and, unless that probe raises, issues the install *)
(* command.                                                                *)
(***************************************************************************)
C15_ExactMatch ==
  TriggeredByOtherRef =>
    /\ \A i \in 1..Len(log) : log[i] # "Nothing to deploy."
    /\ pc \notin {"token", "branch", "probe"} =>
         /\ trace # <<>>
         /\ trace[1] = [op |-> "exists", cmd |-> "./yarn.lock", args |-> <<>>, cwd |-> ""]
    /\ pc \notin {"token", "branch", "probe", "install"} =>
         \/ InstallIssued
         \/ Len(trace) = 1 /\ raised # NotRaised

C15_Witness ==
  /\ ref = "refs/heads/main-2"
  /\ deployBranchIn = ""
  /\ ~IsBlank(accessTokenIn)
  /\ InstallIssued

(***************************************************************************)
(* C16: no external call is issued twice in a run, at most one push is     *)
(* issued, and, every call returning or raising, the run reaches its end   *)
(* after finitely many steps: every step moves the script forward, and     *)
(* before the end a step is always possible.                               *)
(***************************************************************************)
ScriptPositions ==
  <<"token", "branch", "probe", "install", "build", "version", "generate", "cname", "copy",
    "gitinit", "gitname", "gitemail", "gitadd", "gitcommit", "gitpush", "finish", "done">>

Position(p) == CHOOSE i \in 1..Len(ScriptPositions) : ScriptPositions[i] = p

C16_NoRepeat ==
  /\ \A i, j \in 1..Len(trace) : i # j => trace[i] # trace[j]
  /\ Cardinality({i \in 1..Len(trace) : trace[i].cmd = "git push"}) <= 1
  /\ raised # NotRaised \/ failed \/ success => pc = "done"

\* the step the script can take at each position before its end
C16_StepPossible ==
  \/ pc = "token" /\ ENABLED CheckToken
  \/ pc = "branch" /\ ENABLED EarlyExitGuard
  \/ pc = "probe" /\ ENABLED DetectPkgManager
  \/ pc = "install" /\ ENABLED Install
  \/ pc = "build" /\ ENABLED Build
  \/ pc = "version" /\ ENABLED ResolveVersion
  \/ /\ pc = "generate"
     /\ \E valid \in {SemverValid(scullyVersion)} :
          \E flagged \in {IF valid THEN WithLegacyFlag(scullyVersion, scullyArgs) ELSE scullyArgs} :
            ENABLED GenerateStep(valid, flagged)
  \/ pc = "cname" /\ ENABLED ProbeCname
  \/ pc = "copy" /\ ENABLED CopyCname
  \/ pc = "gitinit" /\ ENABLED GitInit
  \/ pc = "gitname" /\ ENABLED GitConfigName
  \/ pc = "gitemail" /\ ENABLED GitConfigEmail
  \/ pc = "gitadd" /\ ENABLED GitAdd
  \/ pc = "gitcommit" /\ ENABLED GitCommit
  \/ pc = "gitpush" /\ ENABLED GitPush
  \/ pc = "finish" /\ ENABLED Finish

C16_Forward == Position(pc') > Position(pc)

C16_NoRetryAndTerminates ==
  [](C16_NoRepeat /\ (pc = "done" \/ C16_StepPossible)) /\ [][C16_Forward]_vars

C16_Witness ==
  /\ pc = "done"
  /\ raised # NotRaised
  /\ Cardinality({i \in 1..Len(trace) : trace[i].cmd = "git push"}) = 1

(***************************************************************************)
(* C17: every git command of a run (init, config user.name, config         *)
(* user.email, add, commit, push) is executed with the working directory   *)
(* ./dist/static, and install, build and generate are executed in the      *)
(* project root (no working directory given); once the push is issued, all *)
(* six git commands have been issued there.                                *)
(***************************************************************************)
GitCommands ==
  {"git init", "git config user.name", "git config user.email", "git add", "git commit",
   "git push"}

ExecEvents == {trace[i] : i \in {j \in 1..Len(trace) : trace[j].op = "exec"}}

C17_GitInOutputDir ==
  /\ \A ev \in ExecEvents :
       IF StartsWith(ev.cmd, "git")
       THEN ev.cmd \in GitCommands /\ ev.cwd = "./dist/static"
       ELSE ev.cwd = ""
  /\ PushIssued =>
       /\ {ev.cmd : ev \in {e \in ExecEvents : e.cwd = "./dist/static"}} = GitCommands
       /\ Cardinality({ev \in ExecEvents : ev.cwd = ""}) = 3

C17_Witness ==
  /\ success
  /\ PushIssued
  /\ trace[Len(trace)].cwd = "./dist/static"
  /\ Cardinality({ev \in ExecEvents : ev.cwd = ""}) = 3

====
